---- MODULE Spec2Model ----
(***************************************************************************)
(* State-machine model of the Tetris engine of src/main.py (TetrisGame and *)
(* Tetromino).  Each public method of TetrisGame is one action, translated *)
(* from its code; the helpers it calls are operators on a record of the    *)
(* object's fields.                                                        *)
(*                                                                         *)
(* Time is counted in units of 0.05 s, in which LOCK_DELAY, drop_interval   *)
(* and the dt values used here are whole numbers.  total_time, the screen, *)
(* the clock and the game-over dialog are presentation and are not         *)
(* modelled.  The key-repeat state of the input layer (left_held,          *)
(* right_held, horizontal_move_cooldown, pygame.key.get_pressed) acts on   *)
(* the engine only through the move_piece call at the top of update:       *)
(* whether that call happens in an update, and with which dx, is the       *)
(* input "polled" of update (0: no call).                                  *)
(* Board rows and rotation states are Python lists: list index i is        *)
(* sequence index i + 1 here.                                              *)
(***************************************************************************)
EXTENDS Integers, Sequences, FiniteSets, TLC

VARIABLES board, lines_cleared, upcoming_pieces, held_piece,
          hold_used_this_turn, current_piece, drop_timer, lock_timer,
          running, draws, locks, spawns, last, cmds, post, script

vars == <<board, lines_cleared, upcoming_pieces, held_piece,
          hold_used_this_turn, current_piece, drop_timer, lock_timer,
          running, draws, locks, spawns, last, cmds, post, script>>

----------------------------------------------------------------------------
(* Program constants *)

GRID_WIDTH == 10

GRID_HEIGHT == 20

\* 0.5 s
LOCK_DELAY == 10

\* self.drop_interval = 0.5
drop_interval == 10

\* Tetromino.__init__: self.x = 3
SPAWN_X == 3

\* Tetromino.__init__: self.y = 0
SPAWN_Y == 0

----------------------------------------------------------------------------
(* Bounds of the model *)

\* commands other than hard_drop issued while the game is running
MaxCmds == 2

\* commands issued after running became False
MaxPost == 1

\* number of shuffle outcomes random.shuffle may produce
NumBagOrders == 2

\* C4: number of full rows on an input board of clear_lines
MaxFullRows == 3

\* C14: anchors handed to get_blocks lie within this distance of the origin
MaxAnchor == 3

----------------------------------------------------------------------------
(* Shape catalog *)

Kinds == {"I", "O", "T", "S", "Z", "L", "J"}

None == "None"

TETROMINOES ==
  [ I |-> << << <<0,0>>, <<1,0>>, <<2,0>>, <<3,0>> >>,
             << <<0,0>>, <<0,1>>, <<0,2>>, <<0,3>> >>,
             << <<0,0>>, <<1,0>>, <<2,0>>, <<3,0>> >>,
             << <<0,0>>, <<0,1>>, <<0,2>>, <<0,3>> >> >>,
    O |-> << << <<0,0>>, <<1,0>>, <<0,1>>, <<1,1>> >>,
             << <<0,0>>, <<1,0>>, <<0,1>>, <<1,1>> >>,
             << <<0,0>>, <<1,0>>, <<0,1>>, <<1,1>> >>,
             << <<0,0>>, <<1,0>>, <<0,1>>, <<1,1>> >> >>,
    T |-> << << <<0,1>>, <<1,1>>, <<2,1>>, <<1,0>> >>,
             << <<1,0>>, <<1,1>>, <<1,2>>, <<2,1>> >>,
             << <<0,0>>, <<1,0>>, <<2,0>>, <<1,1>> >>,
             << <<0,1>>, <<1,1>>, <<1,0>>, <<1,2>> >> >>,
    S |-> << << <<1,0>>, <<2,0>>, <<0,1>>, <<1,1>> >>,
             << <<1,0>>, <<1,1>>, <<2,1>>, <<2,2>> >>,
             << <<1,1>>, <<2,1>>, <<0,2>>, <<1,2>> >>,
             << <<0,0>>, <<0,1>>, <<1,1>>, <<1,2>> >> >>,
    Z |-> << << <<0,0>>, <<1,0>>, <<1,1>>, <<2,1>> >>,
             << <<1,-1>>, <<1,0>>, <<0,0>>, <<0,1>> >>,
             << <<0,0>>, <<1,0>>, <<1,1>>, <<2,1>> >>,
             << <<1,-1>>, <<1,0>>, <<0,0>>, <<0,1>> >> >>,
    L |-> << << <<0,0>>, <<0,1>>, <<0,2>>, <<1,2>> >>,
             << <<0,0>>, <<1,0>>, <<2,0>>, <<0,1>> >>,
             << <<1,0>>, <<1,1>>, <<1,2>>, <<0,0>> >>,
             << <<0,1>>, <<1,1>>, <<2,1>>, <<2,0>> >> >>,
    J |-> << << <<1,0>>, <<1,1>>, <<1,2>>, <<0,2>> >>,
             << <<0,0>>, <<0,1>>, <<1,1>>, <<2,1>> >>,
             << <<0,0>>, <<0,1>>, <<0,2>>, <<1,0>> >>,
             << <<0,0>>, <<1,0>>, <<2,0>>, <<2,1>> >> >> ]

\* COLORS is one colour per shape: a board cell is tagged with the shape
COLORS == [k \in Kinds |-> k]

\* Tetromino.__init__
Tetromino(shape) ==
  [shape |-> shape, rotation_index |-> 0, x |-> SPAWN_X, y |-> SPAWN_Y]

\* get_blocks adding the column offset to both coordinates
get_blocks_typo(p) ==
  LET rotation_variants == TETROMINOES[p.shape]
      coords == rotation_variants[(p.rotation_index % Len(rotation_variants)) + 1]
  IN  [i \in 1..Len(coords) |-> <<p.x + coords[i][1], p.y + coords[i][1]>>]

\* Tetromino.get_blocks: the list of (x, y) cells, in table order
get_blocks(p) ==
  LET rotation_variants == TETROMINOES[p.shape]
      coords == rotation_variants[(p.rotation_index % Len(rotation_variants)) + 1]
  IN  [i \in 1..Len(coords) |-> <<p.x + coords[i][1], p.y + coords[i][2]>>]

\* Tetromino.rotate
rotate(p, direction) ==
  [p EXCEPT !.rotation_index =
     (p.rotation_index + direction) % Len(TETROMINOES[p.shape])]

----------------------------------------------------------------------------
(* Board *)

EmptyRow == [c \in 1..GRID_WIDTH |-> None]

EmptyBoard == [r \in 1..GRID_HEIGHT |-> EmptyRow]

\* self.board[y][x]
Cell(b, x, y) == b[y + 1][x + 1]

\* TetrisGame._is_valid_position
_is_valid_position(b, piece) ==
  LET blocks == get_blocks(piece)
  IN  \A i \in 1..Len(blocks) :
        LET x == blocks[i][1]
            y == blocks[i][2]
        IN  /\ ~(x < 0 \/ x >= GRID_WIDTH \/ y < 0 \/ y >= GRID_HEIGHT)
            /\ Cell(b, x, y) = None

\* is_on_ground with the floor test off by one
is_on_ground_offbyone(b, piece) ==
  LET blocks == get_blocks(piece)
  IN  \E i \in 1..Len(blocks) :
        LET x == blocks[i][1]
            y == blocks[i][2]
        IN  y + 1 > GRID_HEIGHT
            \/ (y + 1 < GRID_HEIGHT /\ Cell(b, x, y + 1) # None)

\* TetrisGame.is_on_ground
is_on_ground(b, piece) ==
  LET blocks == get_blocks(piece)
  IN  \E i \in 1..Len(blocks) :
        LET x == blocks[i][1]
            y == blocks[i][2]
        IN  y + 1 >= GRID_HEIGHT \/ Cell(b, x, y + 1) # None

\* the row deleted without a new row inserted at the top
DelInsert_noinsert(b, row_idx) ==
  SubSeq(b, 1, row_idx) \o SubSeq(b, row_idx + 2, Len(b))

\* del self.board[row_idx]; self.board.insert(0, [None ...])
DelInsert(b, row_idx) ==
  <<EmptyRow>> \o SubSeq(b, 1, row_idx) \o SubSeq(b, row_idx + 2, Len(b))

RowFull(b, row_idx) ==
  \A col_idx \in 0..(GRID_WIDTH - 1) : Cell(b, col_idx, row_idx) # None

\* the list full_rows, in ascending row order
RECURSIVE FullRowsFrom(_, _)
FullRowsFrom(b, row_idx) ==
  IF row_idx >= GRID_HEIGHT THEN <<>>
  ELSE (IF RowFull(b, row_idx) THEN <<row_idx>> ELSE <<>>)
       \o FullRowsFrom(b, row_idx + 1)

\* the loop running over full_rows from the last row to the first
RECURSIVE RemoveRowsDescending(_, _)
RemoveRowsDescending(b, full_rows) ==
  IF full_rows = <<>> THEN b
  ELSE RemoveRowsDescending(DelInsert(b, full_rows[Len(full_rows)]),
                            SubSeq(full_rows, 1, Len(full_rows) - 1))

\* the loop "for row_idx in full_rows"
RECURSIVE RemoveRows(_, _)
RemoveRows(b, full_rows) ==
  IF full_rows = <<>> THEN b
  ELSE RemoveRows(DelInsert(b, Head(full_rows)), Tail(full_rows))

\* clear_lines counting one line per call, however many rows are full
clear_lines_countone(s) ==
  LET full_rows == FullRowsFrom(s.board, 0)
  IN  [s EXCEPT !.board = RemoveRows(s.board, full_rows),
                !.lines_cleared = s.lines_cleared +
                                  (IF full_rows = <<>> THEN 0 ELSE 1)]

\* TetrisGame.clear_lines on the record s of the object's fields
clear_lines(s) ==
  LET full_rows == FullRowsFrom(s.board, 0)
  IN  [s EXCEPT !.board = RemoveRows(s.board, full_rows),
                !.lines_cleared = s.lines_cleared + Len(full_rows)]

\* the loop of lock_piece over the blocks, in order
RECURSIVE WriteBlocks(_, _, _, _)
WriteBlocks(b, blocks, i, color) ==
  IF i > Len(blocks) THEN b
  ELSE LET x == blocks[i][1]
           y == blocks[i][2]
           nb == IF 0 <= y /\ y < GRID_HEIGHT /\ 0 <= x /\ x < GRID_WIDTH
                 THEN [b EXCEPT ![y + 1][x + 1] = color]
                 ELSE b
       IN  WriteBlocks(nb, blocks, i + 1, color)

\* lock_piece without the call of clear_lines
lock_piece_noclear(s) ==
  [s EXCEPT
     !.board = WriteBlocks(s.board, get_blocks(s.current_piece), 1,
                           COLORS[s.current_piece.shape]),
     !.locks = s.locks + 1]

\* TetrisGame.lock_piece
lock_piece(s) ==
  clear_lines([s EXCEPT
     !.board = WriteBlocks(s.board, get_blocks(s.current_piece), 1,
                           COLORS[s.current_piece.shape]),
     !.locks = s.locks + 1])

----------------------------------------------------------------------------
(* The engine: the fields of a TetrisGame as a record *)

\* outcomes of random.shuffle(shapes) that the model draws from
BagOrderList ==
  << <<"L", "J", "I", "O", "T", "S", "Z">>,
     <<"O", "T", "I", "Z", "S", "J", "L">>,
     <<"Z", "S", "T", "L", "J", "O", "I">>,
     <<"I", "O", "T", "S", "Z", "L", "J">> >>

BagOrders == {BagOrderList[i] : i \in 1..NumBagOrders}

\* _generate_new_bag with the append after the loop instead of inside it
_generate_new_bag_lastonly(s, shapes) ==
  [s EXCEPT !.upcoming_pieces =
     s.upcoming_pieces \o <<Tetromino(shapes[Len(shapes)])>>]

\* TetrisGame._generate_new_bag, shapes being the shuffled list
_generate_new_bag(s, shapes) ==
  [s EXCEPT !.upcoming_pieces =
     s.upcoming_pieces \o [i \in 1..Len(shapes) |-> Tetromino(shapes[i])]]

\* spawn_new_piece popping the tail of the queue instead of its head
spawn_new_piece_poplast(s, shapes) ==
  LET s1 == IF Len(s.upcoming_pieces) < 7
            THEN _generate_new_bag(s, shapes) ELSE s
      n == Len(s1.upcoming_pieces)
      piece == s1.upcoming_pieces[n]
  IN  [s1 EXCEPT !.current_piece = piece,
                 !.upcoming_pieces = SubSeq(s1.upcoming_pieces, 1, n - 1),
                 !.hold_used_this_turn = FALSE,
                 !.lock_timer = 0,
                 !.running = IF ~_is_valid_position(s1.board, piece)
                             THEN FALSE ELSE s1.running,
                 !.draws = Append(s1.draws, piece.shape),
                 !.spawns = s1.spawns + 1]

\* spawn_new_piece without the game-over check
spawn_new_piece_nogameover(s, shapes) ==
  LET s1 == IF Len(s.upcoming_pieces) < 7
            THEN _generate_new_bag(s, shapes) ELSE s
      piece == Head(s1.upcoming_pieces)
  IN  [s1 EXCEPT !.current_piece = piece,
                 !.upcoming_pieces = Tail(s1.upcoming_pieces),
                 !.hold_used_this_turn = FALSE,
                 !.lock_timer = 0,
                 !.draws = Append(s1.draws, piece.shape),
                 !.spawns = s1.spawns + 1]

\* spawn_new_piece assigning running from the validity of the new piece
spawn_new_piece_setrunning(s, shapes) ==
  LET s1 == IF Len(s.upcoming_pieces) < 7
            THEN _generate_new_bag(s, shapes) ELSE s
      piece == Head(s1.upcoming_pieces)
  IN  [s1 EXCEPT !.current_piece = piece,
                 !.upcoming_pieces = Tail(s1.upcoming_pieces),
                 !.hold_used_this_turn = FALSE,
                 !.lock_timer = 0,
                 !.running = _is_valid_position(s1.board, piece),
                 !.draws = Append(s1.draws, piece.shape),
                 !.spawns = s1.spawns + 1]

\* spawn_new_piece refilling only below 6 pieces
spawn_new_piece_refill6(s, shapes) ==
  LET s1 == IF Len(s.upcoming_pieces) < 6
            THEN _generate_new_bag(s, shapes) ELSE s
      piece == Head(s1.upcoming_pieces)
  IN  [s1 EXCEPT !.current_piece = piece,
                 !.upcoming_pieces = Tail(s1.upcoming_pieces),
                 !.hold_used_this_turn = FALSE,
                 !.lock_timer = 0,
                 !.running = IF ~_is_valid_position(s1.board, piece)
                             THEN FALSE ELSE s1.running,
                 !.draws = Append(s1.draws, piece.shape),
                 !.spawns = s1.spawns + 1]

\* TetrisGame.spawn_new_piece
spawn_new_piece(s, shapes) ==
  LET s1 == IF Len(s.upcoming_pieces) < 7
            THEN _generate_new_bag(s, shapes) ELSE s
      piece == Head(s1.upcoming_pieces)
  IN  [s1 EXCEPT !.current_piece = piece,
                 !.upcoming_pieces = Tail(s1.upcoming_pieces),
                 !.hold_used_this_turn = FALSE,
                 !.lock_timer = 0,
                 !.running = IF ~_is_valid_position(s1.board, piece)
                             THEN FALSE ELSE s1.running,
                 !.draws = Append(s1.draws, piece.shape),
                 !.spawns = s1.spawns + 1]

\* move_piece resetting lock_timer on every accepted move
move_piece_alwaysreset(s, dx, dy) ==
  LET moved == [s.current_piece EXCEPT !.x = s.current_piece.x + dx,
                                       !.y = s.current_piece.y + dy]
  IN  IF ~_is_valid_position(s.board, moved)
      THEN s
      ELSE [s EXCEPT !.current_piece = moved, !.lock_timer = 0]

\* TetrisGame.move_piece
move_piece(s, dx, dy) ==
  LET moved == [s.current_piece EXCEPT !.x = s.current_piece.x + dx,
                                       !.y = s.current_piece.y + dy]
  IN  IF ~_is_valid_position(s.board, moved)
      THEN s
      ELSE [s EXCEPT !.current_piece = moved,
                     !.lock_timer = IF is_on_ground(s.board, moved)
                                    THEN 0 ELSE s.lock_timer]

\* rotate_piece without the revert of a refused rotation
rotate_piece_norevert(s, direction) ==
  LET rotated == rotate(s.current_piece, direction)
  IN  IF ~_is_valid_position(s.board, rotated)
      THEN [s EXCEPT !.current_piece = rotated]
      ELSE [s EXCEPT !.current_piece = rotated,
                     !.lock_timer = IF is_on_ground(s.board, rotated)
                                    THEN 0 ELSE s.lock_timer]

\* TetrisGame.rotate_piece
rotate_piece(s, direction) ==
  LET rotated == rotate(s.current_piece, direction)
  IN  IF ~_is_valid_position(s.board, rotated)
      THEN s
      ELSE [s EXCEPT !.current_piece = rotated,
                     !.lock_timer = IF is_on_ground(s.board, rotated)
                                    THEN 0 ELSE s.lock_timer]

\* soft_drop without the validity check of the new position
soft_drop_nocheck(s) ==
  LET moved == [s.current_piece EXCEPT !.y = s.current_piece.y + 1]
  IN  [s EXCEPT !.current_piece = moved,
                !.lock_timer = IF is_on_ground(s.board, moved)
                               THEN 0 ELSE s.lock_timer]

\* soft_drop locking the piece at once when it cannot move down
soft_drop_locks(s) ==
  LET moved == [s.current_piece EXCEPT !.y = s.current_piece.y + 1]
  IN  IF ~_is_valid_position(s.board, moved)
      THEN lock_piece(s)
      ELSE [s EXCEPT !.current_piece = moved,
                     !.lock_timer = IF is_on_ground(s.board, moved)
                                    THEN 0 ELSE s.lock_timer]

\* TetrisGame.soft_drop
soft_drop(s) ==
  LET moved == [s.current_piece EXCEPT !.y = s.current_piece.y + 1]
  IN  IF ~_is_valid_position(s.board, moved)
      THEN s
      ELSE [s EXCEPT !.current_piece = moved,
                     !.lock_timer = IF is_on_ground(s.board, moved)
                                    THEN 0 ELSE s.lock_timer]

\* the loop "while self._is_valid_position(...): y += 1" of hard_drop
RECURSIVE Overshoot(_, _)
Overshoot(b, piece) ==
  IF _is_valid_position(b, piece)
  THEN Overshoot(b, [piece EXCEPT !.y = piece.y + 1])
  ELSE piece

\* hard_drop without the step back after the overshoot
hard_drop_nostepback(s, shapes) ==
  LET over == Overshoot(s.board, s.current_piece)
  IN  spawn_new_piece(lock_piece([s EXCEPT !.current_piece = over]), shapes)

\* TetrisGame.hard_drop
hard_drop(s, shapes) ==
  LET over == Overshoot(s.board, s.current_piece)
      landed == [over EXCEPT !.y = over.y - 1]
  IN  spawn_new_piece(lock_piece([s EXCEPT !.current_piece = landed]), shapes)

\* hold_piece without the validity check of the swapped-in piece
hold_piece_nogameover(s, shapes) ==
  IF s.hold_used_this_turn THEN s
  ELSE LET s1 == [s EXCEPT !.hold_used_this_turn = TRUE]
           s2 == IF s1.held_piece = <<>>
                 THEN spawn_new_piece(
                        [s1 EXCEPT !.held_piece = <<s1.current_piece>>], shapes)
                 ELSE LET swapped == [s1.held_piece[1] EXCEPT
                                        !.x = 3, !.y = 0, !.rotation_index = 0]
                      IN  [s1 EXCEPT
                             !.current_piece = swapped,
                             !.held_piece = <<s1.current_piece>>]
       IN  [s2 EXCEPT !.lock_timer = 0]

\* TetrisGame.hold_piece; held_piece is <<>> for None, <<piece>> otherwise
hold_piece(s, shapes) ==
  IF s.hold_used_this_turn THEN s
  ELSE LET s1 == [s EXCEPT !.hold_used_this_turn = TRUE]
           s2 == IF s1.held_piece = <<>>
                 THEN spawn_new_piece(
                        [s1 EXCEPT !.held_piece = <<s1.current_piece>>], shapes)
                 ELSE LET swapped == [s1.held_piece[1] EXCEPT
                                        !.x = 3, !.y = 0, !.rotation_index = 0]
                      IN  [s1 EXCEPT
                             !.current_piece = swapped,
                             !.held_piece = <<s1.current_piece>>,
                             !.running = IF ~_is_valid_position(s1.board, swapped)
                                         THEN FALSE ELSE s1.running]
       IN  [s2 EXCEPT !.lock_timer = 0]

\* TetrisGame.handle_events, lines 195-196: a pygame.QUIT event
quit(s) == [s EXCEPT !.running = FALSE]

\* TetrisGame.update, lines 231-240: the key repeat calls move_piece(dx=-1)
\* or move_piece(dx=1), or does not call it (polled = 0)
poll_keys(s, polled) ==
  IF polled = 0 THEN s ELSE move_piece(s, polled, 0)

\* lock delay restarting lock_timer at dt in every update
lock_delay_noaccumulate(s, dt, shapes) ==
  IF is_on_ground(s.board, s.current_piece)
  THEN LET s1 == [s EXCEPT !.lock_timer = dt]
       IN  IF s1.lock_timer >= LOCK_DELAY
           THEN spawn_new_piece(lock_piece(s1), shapes)
           ELSE s1
  ELSE [s EXCEPT !.lock_timer = 0]

\* lock delay adding dt to lock_timer whether the piece is grounded or not
lock_delay_always(s, dt, shapes) ==
  LET s1 == [s EXCEPT !.lock_timer = s.lock_timer + dt]
  IN  IF is_on_ground(s.board, s.current_piece)
      THEN IF s1.lock_timer >= LOCK_DELAY
           THEN spawn_new_piece(lock_piece(s1), shapes)
           ELSE s1
      ELSE s1

\* lock delay expiring only when lock_timer exceeds LOCK_DELAY
lock_delay_strict(s, dt, shapes) ==
  IF is_on_ground(s.board, s.current_piece)
  THEN LET s1 == [s EXCEPT !.lock_timer = s.lock_timer + dt]
       IN  IF s1.lock_timer > LOCK_DELAY
           THEN spawn_new_piece(lock_piece(s1), shapes)
           ELSE s1
  ELSE [s EXCEPT !.lock_timer = 0]

\* TetrisGame.update, lines 246-254: lock delay
lock_delay(s, dt, shapes) ==
  IF is_on_ground(s.board, s.current_piece)
  THEN LET s1 == [s EXCEPT !.lock_timer = s.lock_timer + dt]
       IN  IF s1.lock_timer >= LOCK_DELAY
           THEN spawn_new_piece(lock_piece(s1), shapes)
           ELSE s1
  ELSE [s EXCEPT !.lock_timer = 0]

\* gravity dropping the piece without resetting drop_timer
gravity_noreset(s) ==
  IF s.drop_timer >= drop_interval
  THEN soft_drop(s)
  ELSE s

\* TetrisGame.update, lines 256-259: gravity
gravity(s) ==
  IF s.drop_timer >= drop_interval
  THEN soft_drop([s EXCEPT !.drop_timer = 0])
  ELSE s

\* TetrisGame.update
update(s, dt, polled, shapes) ==
  LET s1 == poll_keys(s, polled)
      s2 == [s1 EXCEPT !.drop_timer = s1.drop_timer + dt]
      s3 == lock_delay(s2, dt, shapes)
  IN  gravity(s3)

----------------------------------------------------------------------------
(* The state machine *)

\* elapsed time per update call: 0.3 s, 0.5 s, 1.0 s
DTs == {6, 10, 20}

\* the move issued by the key repeat in an update: left, none, right
Polls == {-1, 0, 1}

\* random.shuffle is called only when spawn_new_piece refills the queue
Shuffles == IF Len(upcoming_pieces) < 7 THEN BagOrders ELSE {BagOrderList[1]}

Dirs == {-1, 1}

\* the object's fields (and the history counters) as a record
Self ==
  [board |-> board, lines_cleared |-> lines_cleared,
   upcoming_pieces |-> upcoming_pieces, held_piece |-> held_piece,
   hold_used_this_turn |-> hold_used_this_turn,
   current_piece |-> current_piece, drop_timer |-> drop_timer,
   lock_timer |-> lock_timer, running |-> running,
   draws |-> draws, locks |-> locks, spawns |-> spawns]

Store(s) ==
  /\ board' = s.board
  /\ lines_cleared' = s.lines_cleared
  /\ upcoming_pieces' = s.upcoming_pieces
  /\ held_piece' = s.held_piece
  /\ hold_used_this_turn' = s.hold_used_this_turn
  /\ current_piece' = s.current_piece
  /\ drop_timer' = s.drop_timer
  /\ lock_timer' = s.lock_timer
  /\ running' = s.running
  /\ draws' = s.draws
  /\ locks' = s.locks
  /\ spawns' = s.spawns

\* the fields of the record as the initial values of the variables
Start(s) ==
  /\ board = s.board
  /\ lines_cleared = s.lines_cleared
  /\ upcoming_pieces = s.upcoming_pieces
  /\ held_piece = s.held_piece
  /\ hold_used_this_turn = s.hold_used_this_turn
  /\ current_piece = s.current_piece
  /\ drop_timer = s.drop_timer
  /\ lock_timer = s.lock_timer
  /\ running = s.running
  /\ draws = s.draws
  /\ locks = s.locks
  /\ spawns = s.spawns

\* a command may be issued: hard_drop (free) always while running, the
\* others MaxCmds times while running, any command MaxPost times afterwards;
\* none while a command script is being replayed
Budget(free) ==
  /\ script = <<>>
  /\ script' = script
  /\ IF running THEN free \/ cmds < MaxCmds ELSE post < MaxPost
  /\ cmds' = IF running /\ ~free THEN cmds + 1 ELSE cmds
  /\ post' = IF running THEN post ELSE post + 1

\* TetrisGame.__init__
Init ==
  \E shapes1 \in BagOrders, shapes2 \in BagOrders :
    LET s0 == _generate_new_bag(_generate_new_bag(
                 [upcoming_pieces |-> <<>>], shapes1), shapes2)
    IN  /\ board = EmptyBoard
        /\ lines_cleared = 0
        /\ upcoming_pieces = Tail(s0.upcoming_pieces)
        /\ held_piece = <<>>
        /\ hold_used_this_turn = FALSE
        /\ current_piece = Head(s0.upcoming_pieces)
        /\ drop_timer = 0
        /\ lock_timer = 0
        /\ running = TRUE
        /\ draws = <<Head(s0.upcoming_pieces).shape>>
        /\ locks = 0
        /\ spawns = 0
        /\ last = [op |-> "init", arg |-> 0, polled |-> 0, ok |-> TRUE]
        /\ cmds = 0
        /\ post = 0
        /\ script = <<>>

MovePiece ==
  \E dx \in Dirs :
    /\ Budget(FALSE)
    /\ Store(move_piece(Self, dx, 0))
    /\ last' = [op |-> "move_piece", arg |-> dx, polled |-> 0,
                ok |-> _is_valid_position(board,
                         [current_piece EXCEPT !.x = current_piece.x + dx])]

RotatePiece ==
  \E direction \in Dirs :
    /\ Budget(FALSE)
    /\ Store(rotate_piece(Self, direction))
    /\ last' = [op |-> "rotate_piece", arg |-> direction, polled |-> 0,
                ok |-> _is_valid_position(board, rotate(current_piece, direction))]

SoftDrop ==
  /\ Budget(FALSE)
  /\ Store(soft_drop(Self))
  /\ last' = [op |-> "soft_drop", arg |-> 0, polled |-> 0,
              ok |-> _is_valid_position(board,
                       [current_piece EXCEPT !.y = current_piece.y + 1])]

HardDrop ==
  \E shapes \in Shuffles :
    /\ Budget(TRUE)
    /\ Store(hard_drop(Self, shapes))
    /\ last' = [op |-> "hard_drop", arg |-> 0, polled |-> 0, ok |-> TRUE]

HoldPiece ==
  \E shapes \in Shuffles :
    /\ Budget(FALSE)
    /\ Store(hold_piece(Self, shapes))
    /\ last' = [op |-> "hold_piece", arg |-> 0, polled |-> 0,
                ok |-> ~hold_used_this_turn]

Update ==
  \E dt \in DTs, polled \in Polls, shapes \in Shuffles :
    /\ Budget(FALSE)
    /\ Store(update(Self, dt, polled, shapes))
    /\ last' = [op |-> "update", arg |-> dt, polled |-> polled,
                ok |-> locks' > locks]

\* a QUIT event (the window is closed) handled by handle_events
Quit ==
  /\ Budget(FALSE)
  /\ Store(quit(Self))
  /\ last' = [op |-> "quit", arg |-> 0, polled |-> 0, ok |-> TRUE]

Next ==
  \/ MovePiece
  \/ RotatePiece
  \/ SoftDrop
  \/ HardDrop
  \/ HoldPiece
  \/ Update
  \/ Quit

Spec == Init /\ [][Next]_vars

----------------------------------------------------------------------------
(* Rejected commands *)

Shifted(p, dx, dy) == [p EXCEPT !.x = p.x + dx, !.y = p.y + dy]

RejectedNow ==
  \/ /\ last'.op = "move_piece"
     /\ ~_is_valid_position(board, Shifted(current_piece, last'.arg, 0))
  \/ /\ last'.op = "rotate_piece"
     /\ ~_is_valid_position(board, rotate(current_piece, last'.arg))
  \/ /\ last'.op = "soft_drop"
     /\ ~_is_valid_position(board, Shifted(current_piece, 0, 1))

\* C1: in a running state with a valid active piece, a move, rotate or
\* soft_drop whose resulting cells are out of bounds or occupied leaves the
\* piece's x, y and rotation index, the board, the queue, the held slot,
\* lock_timer and the running flag exactly as they were.
C1_RejectionAtomic ==
  [][(running /\ _is_valid_position(board, current_piece) /\ RejectedNow)
       => /\ current_piece' = current_piece
          /\ board' = board
          /\ upcoming_pieces' = upcoming_pieces
          /\ held_piece' = held_piece
          /\ lock_timer' = lock_timer
          /\ running' = running]_vars

\* a rotation has just been refused while the game was running
C1_Witness ==
  /\ last.op = "rotate_piece"
  /\ ~last.ok
  /\ running
  /\ post = 0

----------------------------------------------------------------------------
(* Hold *)

\* C2: when hold is called twice in succession while the game runs, the
\* second call changes neither the held slot, nor the active piece, nor the
\* upcoming queue.
C2_SecondHoldNoop ==
  [][(last.op = "hold_piece" /\ last'.op = "hold_piece" /\ running)
       => /\ held_piece' = held_piece
          /\ current_piece' = current_piece
          /\ upcoming_pieces' = upcoming_pieces]_vars

----------------------------------------------------------------------------
(* Bag *)

Min(a, b) == IF a < b THEN a ELSE b

\* the kinds drawn in block k (draws 7k+1 .. 7k+7), as far as drawn
Block(k) == {draws[i] : i \in (7 * k + 1)..Min(7 * k + 7, Len(draws))}

\* C3: counting the constructor's piece as the first draw, no kind occurs
\* twice within a block of 7 draws measured from a bag boundary, so every
\* complete block contains each of the 7 kinds exactly once.
C3_BagFairness ==
  \A k \in 0..(Len(draws) \div 7) :
    /\ Block(k) \subseteq Kinds
    /\ Cardinality(Block(k)) = Min(7, Len(draws) - 7 * k)

\* a complete block has been drawn and the next one begun, with commands
\* other than hard_drop in between
C3_Witness ==
  /\ Len(draws) >= 9
  /\ cmds >= 2
  /\ held_piece # <<>>

----------------------------------------------------------------------------
(* Lock delay *)

\* C5: an update without a polled move on a running game whose piece is
\* grounded locks the piece exactly when lock_timer plus dt reaches
\* LOCK_DELAY, and then exactly once, making the head of the queue the
\* active piece; otherwise it only adds dt to lock_timer.
C5_LockDelay ==
  [][(/\ last'.op = "update"
      /\ last'.polled = 0
      /\ running
      /\ _is_valid_position(board, current_piece)
      /\ is_on_ground(board, current_piece))
       => IF lock_timer + last'.arg >= LOCK_DELAY
          THEN /\ locks' = locks + 1
               /\ spawns' = spawns + 1
               /\ current_piece'.shape = Head(upcoming_pieces).shape
               /\ board' # board
          ELSE /\ locks' = locks
               /\ spawns' = spawns
               /\ lock_timer' = lock_timer + last'.arg
               /\ current_piece' = current_piece
               /\ board' = board]_vars

\* update(0.3) has just locked the piece: lock_timer was 0.3 before, from
\* an earlier update(0.3) that did not lock
C5_Witness ==
  /\ last.op = "update"
  /\ last.arg = 6
  /\ last.polled = 0
  /\ last.ok
  /\ post = 0

----------------------------------------------------------------------------
(* Hard drop *)

\* the row where the piece rests: every row from its own down to it is
\* valid and one more step down is not
RestRow(b, p) ==
  CHOOSE y \in p.y..(GRID_HEIGHT - 1) :
    /\ \A yy \in p.y..y : _is_valid_position(b, [p EXCEPT !.y = yy])
    /\ ~_is_valid_position(b, [p EXCEPT !.y = y + 1])

\* C6: from a valid position of a running game, hard_drop commits the
\* piece with its x and rotation in the row where it rests, and performs
\* exactly one lock and one spawn, whatever lock_timer is.
C6_HardDrop ==
  [][(/\ last'.op = "hard_drop"
      /\ running
      /\ _is_valid_position(board, current_piece))
       => LET rest == [current_piece EXCEPT
                         !.y = RestRow(board, current_piece)]
          IN  /\ is_on_ground(board, rest)
              /\ board' = lock_piece([Self EXCEPT !.current_piece = rest]).board
              /\ locks' = locks + 1
              /\ spawns' = spawns + 1
              /\ current_piece'.shape = Head(upcoming_pieces).shape]_vars

\* a hard drop while running, after an earlier command other than
\* hard_drop and at least one earlier lock
C6_Witness ==
  /\ last.op = "hard_drop"
  /\ cmds >= 1
  /\ locks >= 2
  /\ post = 0

----------------------------------------------------------------------------
(* Game over *)

\* C7: a spawn whose piece is invalid against the board sets running to
\* False and does not change the board; running becomes False only in a
\* spawn or a hold swap whose new active piece is invalid.
C7_GameOverOnSpawn ==
  [][/\ (spawns' = spawns + 1
           /\ ~_is_valid_position(board', Head(upcoming_pieces)))
          => ~running'
     /\ (last'.op = "hold_piece" /\ spawns' = spawns + 1) => board' = board
     /\ (last'.op = "update" /\ last'.polled = 0 /\ spawns' = spawns + 1)
          => board' = lock_piece(Self).board
     /\ (running /\ ~running')
          => \/ /\ spawns' = spawns + 1
                /\ ~_is_valid_position(board', Head(upcoming_pieces))
             \/ /\ last'.op = "hold_piece"
                /\ ~hold_used_this_turn
                /\ held_piece # <<>>
                /\ ~_is_valid_position(board, Tetromino(held_piece[1].shape))
    ]_vars

\* the game has just ended in the spawn of a hard drop
C7_Witness ==
  /\ ~running
  /\ post = 0
  /\ last.op = "hard_drop"
  /\ ~_is_valid_position(board, current_piece)

\* the game has just ended in a hold swap
C7_WitnessSwap ==
  /\ ~running
  /\ post = 0
  /\ last.op = "hold_piece"
  /\ spawns < Len(draws)

\* C8: once running is False, no command changes the board, the active
\* piece, the held slot or the upcoming queue.
C8_NoopAfterGameOver ==
  [][~running
       => /\ board' = board
          /\ current_piece' = current_piece
          /\ held_piece' = held_piece
          /\ upcoming_pieces' = upcoming_pieces]_vars

\* C9: once running is False it is never True again.
C9_GameOverPermanent == [][~running => ~running']_vars

\* a command has been issued after the game ended
C9_Witness ==
  /\ ~running
  /\ post >= 1

----------------------------------------------------------------------------
(* Queue length *)

\* C10 as stated: the queue always holds at least 7 pieces.
C10_QueueAtLeastSeven == Len(upcoming_pieces) >= 7

\* C10 amended: the queue always holds at least 6 pieces; a spawn refills
\* it with a 7-piece bag before its pop when it finds fewer than 7.
C10_QueueAtLeastSix ==
  /\ [](Len(upcoming_pieces) >= 6)
  /\ [][spawns' = spawns + 1
          => Len(upcoming_pieces') =
               (IF Len(upcoming_pieces) < 7 THEN Len(upcoming_pieces) + 7
                ELSE Len(upcoming_pieces)) - 1]_vars

\* the queue is down to 6 pieces in a running game
C10_Witness ==
  /\ Len(upcoming_pieces) = 6
  /\ running

----------------------------------------------------------------------------
(* clear_lines as a function of the board: boards with up to MaxFullRows  *)
(* full rows anywhere, every other row holding a content of its own       *)

RowIds == 0..(GRID_HEIGHT - 1)

\* a row that is not full: the first row_idx % GRID_WIDTH cells occupied
\* (variant 1), or all cells but one occupied (variant 2)
PartialRow(row_idx, variant) ==
  LET tag == IF row_idx < GRID_WIDTH THEN "I" ELSE "O"
  IN  [c \in 1..GRID_WIDTH |->
         IF variant = 1
         THEN (IF c <= row_idx % GRID_WIDTH THEN tag ELSE None)
         ELSE (IF c = (row_idx % GRID_WIDTH) + 1 THEN None ELSE tag)]

FullRow == [c \in 1..GRID_WIDTH |-> "T"]

InputBoard(full, variant) ==
  [r \in 1..GRID_HEIGHT |->
     IF (r - 1) \in full THEN FullRow ELSE PartialRow(r - 1, variant)]

FullSets == {full \in SUBSET RowIds : Cardinality(full) <= MaxFullRows}

InitClear ==
  \E full \in FullSets, variant \in {1, 2}, n \in {0, 10} :
    /\ board = InputBoard(full, variant)
    /\ lines_cleared = n
    /\ upcoming_pieces = <<>>
    /\ held_piece = <<>>
    /\ hold_used_this_turn = FALSE
    /\ current_piece = Tetromino("I")
    /\ drop_timer = 0
    /\ lock_timer = 0
    /\ running = TRUE
    /\ draws = <<>>
    /\ locks = 0
    /\ spawns = 0
    /\ last = [op |-> "init", arg |-> 0, polled |-> 0, ok |-> TRUE]
    /\ cmds = 0
    /\ post = 0
    /\ script = <<>>

ClearLines ==
  /\ last.op = "init"
  /\ Store(clear_lines(Self))
  /\ last' = [op |-> "clear_lines", arg |-> 0, polled |-> 0, ok |-> TRUE]
  /\ UNCHANGED <<cmds, post, script>>

NextClear == ClearLines

SpecClear == InitClear /\ [][NextClear]_vars

\* C4: clear_lines removes exactly the full rows, puts as many empty rows
\* on top, keeps the other rows in their order with their contents, and
\* adds the number of removed rows to lines_cleared.
C4_LineClear ==
  [][last'.op = "clear_lines"
       => LET full == {r \in RowIds : \A c \in 1..GRID_WIDTH : board[r + 1][c] # None}
              kept == RowIds \ full
              n == Cardinality(full)
          IN  /\ Len(board') = GRID_HEIGHT
              /\ \A i \in 1..n : board'[i] = EmptyRow
              /\ \A r \in kept :
                   board'[n + Cardinality({q \in kept : q < r}) + 1] = board[r + 1]
              /\ lines_cleared' = lines_cleared + n]_vars

\* three rows have been removed from a board that keeps occupied cells
C4_Witness ==
  /\ last.op = "clear_lines"
  /\ lines_cleared = 3
  /\ board[1] = EmptyRow
  /\ board[3] = EmptyRow
  /\ \E r \in 4..GRID_HEIGHT : \E c \in 1..GRID_WIDTH : board[r][c] # None

----------------------------------------------------------------------------
(* Games in progress: the engine after construction with the first bag     *)
(* order twice, then a fixed command script that stacks the pieces to the  *)
(* sides so that a lock can complete rows; commands are free after it.     *)

\* the fields after TetrisGame.__init__ with the two shuffle outcomes
NewGame(shapes1, shapes2) ==
  LET s0 == _generate_new_bag(_generate_new_bag(
               [upcoming_pieces |-> <<>>], shapes1), shapes2)
  IN  [board |-> EmptyBoard, lines_cleared |-> 0,
       upcoming_pieces |-> Tail(s0.upcoming_pieces), held_piece |-> <<>>,
       hold_used_this_turn |-> FALSE,
       current_piece |-> Head(s0.upcoming_pieces), drop_timer |-> 0,
       lock_timer |-> 0, running |-> TRUE,
       draws |-> <<Head(s0.upcoming_pieces).shape>>, locks |-> 0,
       spawns |-> 0]

\* one command <<name, argument>> applied to the fields
Apply(s, c) ==
  CASE c[1] = "move" -> move_piece(s, c[2], 0)
    [] c[1] = "rot"  -> rotate_piece(s, c[2])
    [] c[1] = "soft" -> soft_drop(s)
    [] c[1] = "hold" -> hold_piece(s, BagOrderList[1])
    [] c[1] = "hard" -> hard_drop(s, BagOrderList[1])

\* L and J flat in the bottom corners: the I that follows completes row 19
ScriptOneRow ==
  << <<"rot", -1>>, <<"move", -1>>, <<"move", -1>>, <<"move", -1>>,
     <<"hard", 0>>, <<"rot", 1>>, <<"move", 1>>, <<"move", 1>>,
     <<"move", 1>>, <<"move", 1>>, <<"hard", 0>> >>

\* two rows complete but for a gap that the S that follows fills
ScriptTwoRows ==
  << <<"rot", -1>>, <<"move", 1>>, <<"move", 1>>, <<"hard", 0>>,
     <<"move", 1>>, <<"move", 1>>, <<"hard", 0>>, <<"move", -1>>,
     <<"move", -1>>, <<"move", -1>>, <<"hard", 0>>, <<"move", 1>>,
     <<"move", 1>>, <<"move", 1>>, <<"move", 1>>, <<"move", 1>>,
     <<"hard", 0>>, <<"move", -1>>, <<"move", -1>>, <<"move", -1>>,
     <<"hard", 0>> >>

\* three rows complete but for a gap that the L that follows fills
ScriptThreeRows ==
  << <<"move", 1>>, <<"move", 1>>, <<"hard", 0>>, <<"move", 1>>,
     <<"move", 1>>, <<"move", 1>>, <<"move", 1>>, <<"hard", 0>>,
     <<"rot", 1>>, <<"move", 1>>, <<"move", 1>>, <<"move", 1>>,
     <<"move", 1>>, <<"move", 1>>, <<"move", 1>>, <<"hard", 0>>,
     <<"move", 1>>, <<"move", 1>>, <<"move", 1>>, <<"hard", 0>>,
     <<"move", -1>>, <<"move", -1>>, <<"move", -1>>, <<"hard", 0>>,
     <<"rot", 1>>, <<"move", -1>>, <<"move", -1>>, <<"hard", 0>>,
     <<"soft", 0>>, <<"rot", 1>>, <<"move", -1>>, <<"move", -1>>,
     <<"move", -1>>, <<"hard", 0>> >>

\* four rows complete but for column 3, with an I in the held slot
ScriptFourRows ==
  << <<"rot", -1>>, <<"move", -1>>, <<"move", -1>>, <<"move", -1>>,
     <<"hard", 0>>, <<"rot", 1>>, <<"move", 1>>, <<"move", 1>>,
     <<"move", 1>>, <<"hard", 0>>, <<"hold", 0>>, <<"move", 1>>,
     <<"hard", 0>>, <<"rot", -1>>, <<"move", 1>>, <<"move", 1>>,
     <<"move", 1>>, <<"move", 1>>, <<"move", 1>>, <<"hard", 0>>,
     <<"move", -1>>, <<"move", -1>>, <<"move", -1>>, <<"hard", 0>>,
     <<"soft", 0>>, <<"rot", 1>>, <<"move", 1>>, <<"move", 1>>,
     <<"move", 1>>, <<"move", 1>>, <<"move", 1>>, <<"hard", 0>>,
     <<"rot", 1>>, <<"move", -1>>, <<"move", -1>>, <<"move", -1>>,
     <<"hard", 0>>, <<"rot", 1>>, <<"move", 1>>, <<"hard", 0>>,
     <<"rot", 1>>, <<"move", 1>>, <<"move", 1>>, <<"move", 1>>,
     <<"move", 1>>, <<"hard", 0>>, <<"move", 1>>, <<"move", 1>>,
     <<"hard", 0>> >>

PlayScripts ==
  {ScriptOneRow, ScriptTwoRows, ScriptThreeRows, ScriptFourRows}

InitPlay ==
  \E sc \in PlayScripts :
    /\ Start(NewGame(BagOrderList[1], BagOrderList[1]))
    /\ last = [op |-> "init", arg |-> 0, polled |-> 0, ok |-> TRUE]
    /\ cmds = 0
    /\ post = 0
    /\ script = sc

\* the next command of the script
Replay ==
  /\ script # <<>>
  /\ Store(Apply(Self, Head(script)))
  /\ script' = Tail(script)
  /\ last' = [op |-> "replay", arg |-> 0, polled |-> 0, ok |-> TRUE]
  /\ UNCHANGED <<cmds, post>>

NextPlay ==
  \/ Replay
  \/ Next

SpecPlay == InitPlay /\ [][NextPlay]_vars

----------------------------------------------------------------------------
(* The queue of upcoming pieces *)

\* C11: the queue never starves: every spawn (after a lock, a hard_drop or a
\* hold with an empty slot) pops the head of a non-empty queue, and in every
\* reachable state the queue holds at least 2 pieces
C11_NeverStarves ==
  /\ [](Len(upcoming_pieces) >= 2)
  /\ [][spawns' = spawns + 1 =>
          /\ upcoming_pieces # <<>>
          /\ draws' = Append(draws, Head(upcoming_pieces).shape)
          /\ current_piece'.shape = Head(upcoming_pieces).shape
          /\ Len(upcoming_pieces') \in
               {Len(upcoming_pieces) - 1, Len(upcoming_pieces) + 6}]_vars

\* a spawn has refilled the queue at its minimum and popped its head
C11_Witness ==
  /\ spawns = 8
  /\ Len(upcoming_pieces) = 12
  /\ last.op \in {"hard_drop", "hold_piece", "update"}

----------------------------------------------------------------------------
(* Writes to the board *)

\* the cells of the piece that lie inside the grid are empty on the board
OffBoard(b, piece) ==
  LET blocks == get_blocks(piece)
  IN  \A i \in 1..Len(blocks) :
        LET x == blocks[i][1]
            y == blocks[i][2]
        IN  (0 <= x /\ x < GRID_WIDTH /\ 0 <= y /\ y < GRID_HEIGHT)
              => Cell(b, x, y) = None

\* C12: the board is written only by a lock: move_piece, rotate_piece,
\* soft_drop, hold_piece and an update in which the lock delay does not
\* expire leave every cell unchanged, so the board of a running game never
\* contains a cell of the active piece
C12_BoardOnlyByLock ==
  /\ [][((\/ last'.op \in {"move_piece", "rotate_piece", "soft_drop",
                              "hold_piece"}
           \/ (last'.op = "update" /\ locks' = locks))
            => board' = board)
          /\ (board' # board => locks' = locks + 1)]_vars
  /\ [](running => OffBoard(board, current_piece))

\* an update has added to the lock timer of a grounded piece above locked
\* pieces without locking it
C12_Witness ==
  /\ last.op = "update"
  /\ ~last.ok
  /\ lock_timer > 0
  /\ locks >= 1
  /\ running
  /\ board # EmptyBoard

----------------------------------------------------------------------------
(* Board dimensions *)

\* C13: board dimensions never change: after any sequence of commands,
\* locks that clear rows included, the board has exactly GRID_HEIGHT rows
\* and every row has exactly GRID_WIDTH cells
C13_BoardDimensions ==
  /\ DOMAIN board = 1..GRID_HEIGHT
  /\ \A r \in 1..GRID_HEIGHT : DOMAIN board[r] = 1..GRID_WIDTH

\* a hard_drop has completed 4 rows, and locked cells remain below them
C13_Witness ==
  /\ lines_cleared = 4
  /\ last.op = "hard_drop"
  /\ board # EmptyBoard

----------------------------------------------------------------------------
(* Tetromino as an object of its own: a piece of any kind at any anchor    *)
(* near the origin, turned by rotate(1) and rotate(-1).                    *)

Anchors == (0 - MaxAnchor)..MaxAnchor

InitPiece ==
  \E shape \in Kinds, ax \in Anchors, ay \in Anchors :
    /\ Start([NewGame(BagOrderList[1], BagOrderList[1]) EXCEPT
                !.current_piece = [Tetromino(shape) EXCEPT !.x = ax, !.y = ay]])
    /\ last = [op |-> "init", arg |-> 0, polled |-> 0, ok |-> TRUE]
    /\ cmds = 0
    /\ post = 0
    /\ script = <<>>

\* Tetromino.rotate(direction)
Rotate ==
  \E direction \in Dirs :
    /\ current_piece' = rotate(current_piece, direction)
    /\ last' = [op |-> "rotate", arg |-> direction, polled |-> 0, ok |-> TRUE]
    /\ UNCHANGED <<board, lines_cleared, upcoming_pieces, held_piece,
                   hold_used_this_turn, drop_timer, lock_timer, running,
                   draws, locks, spawns, cmds, post, script>>

NextPiece == Rotate

SpecPiece == InitPiece /\ [][NextPiece]_vars

\* C14: for every kind, every rotation index reached by rotate(1) and
\* rotate(-1) and every anchor, get_blocks returns exactly 4 pairwise
\* distinct cells, each the anchor plus one offset of the kind's rotation
\* state, the rotation index taken modulo 4
C14_ShapeInvariant ==
  LET blocks == get_blocks(current_piece)
      offsets == TETROMINOES[current_piece.shape]
                            [(current_piece.rotation_index % 4) + 1]
  IN  /\ current_piece.rotation_index \in 0..3
      /\ Len(TETROMINOES[current_piece.shape]) = 4
      /\ Len(blocks) = 4
      /\ Cardinality({blocks[i] : i \in 1..4}) = 4
      /\ {blocks[i] : i \in 1..4} =
           {<<current_piece.x + offsets[j][1], current_piece.y + offsets[j][2]>> :
              j \in 1..4}

\* rotate(-1) has wrapped the rotation index of a piece left of and above
\* the origin from 0 to 3
C14_Witness ==
  /\ last.op = "rotate"
  /\ last.arg = -1
  /\ current_piece.rotation_index = 3
  /\ current_piece.x < 0
  /\ current_piece.y < 0

----------------------------------------------------------------------------
(* Hold *)

\* C15: a hold_piece that is not refused leaves the piece that was active
\* in the held slot, makes the head of the queue (slot empty) or the former
\* held piece (slot occupied) the active piece at x = 3, y = 0 with rotation
\* index 0, resets lock_timer to 0 and, when it swaps, clears running
\* exactly when that placement is invalid on the board
C15_Hold ==
  [][(last'.op = "hold_piece" /\ ~hold_used_this_turn) =>
       LET incoming == IF held_piece = <<>>
                       THEN Head(upcoming_pieces).shape
                       ELSE held_piece[1].shape
       IN  /\ held_piece' = <<current_piece>>
           /\ current_piece' = [shape |-> incoming, rotation_index |-> 0,
                                x |-> 3, y |-> 0]
           /\ lock_timer' = 0
           /\ board' = board
           /\ held_piece # <<>> =>
                /\ running' = (running /\ _is_valid_position(board, current_piece'))
                /\ hold_used_this_turn'
                /\ upcoming_pieces' = upcoming_pieces]_vars

\* the active piece has been swapped with the held piece above locked
\* pieces in a running game
C15_Witness ==
  /\ last.op = "hold_piece"
  /\ last.ok
  /\ hold_used_this_turn
  /\ held_piece # <<>>
  /\ running
  /\ board # EmptyBoard

----------------------------------------------------------------------------
(* Gravity *)

\* C16: every update adds dt to drop_timer; when the sum reaches
\* drop_interval the timer is reset to 0 and the piece moves down one row
\* if it can, and never more than one; below drop_interval the update does
\* not move the piece down.  Gravity comes after the lock delay: it acts on
\* the piece spawned by the update when the update locked the previous one
C16_Gravity ==
  [][last'.op = "update" =>
       LET dt == last'.arg
           fired == drop_timer + dt >= drop_interval
           y0 == IF locks' # locks THEN SPAWN_Y ELSE current_piece.y
           lower == [current_piece' EXCEPT !.y = y0 + 1]
       IN  /\ drop_timer' = IF fired THEN 0 ELSE drop_timer + dt
           /\ current_piece'.y =
                IF fired /\ _is_valid_position(board', lower)
                THEN y0 + 1 ELSE y0
           /\ locks' = locks => current_piece'.shape = current_piece.shape]_vars

\* an update of 1.0 s, twice drop_interval, has locked a piece and moved
\* the piece it spawned one row down
C16_Witness ==
  /\ last.op = "update"
  /\ last.arg = 20
  /\ last.ok
  /\ running
  /\ current_piece.y = 1
  /\ drop_timer = 0
  /\ lock_timer = 0

----------------------------------------------------------------------------
(* Lock timer *)

\* C17: an accepted move_piece, rotate_piece or soft_drop resets lock_timer
\* to 0 if the piece is grounded in its new placement and leaves it
\* unchanged if it is not; a rejected one never changes lock_timer
C17_LockTimerReset ==
  [][last'.op \in {"move_piece", "rotate_piece", "soft_drop"} =>
       IF last'.ok
       THEN /\ current_piece' # current_piece
            /\ lock_timer' = IF is_on_ground(board, current_piece')
                             THEN 0 ELSE lock_timer
       ELSE /\ current_piece' = current_piece
            /\ lock_timer' = lock_timer]_vars

\* an accepted command has taken a piece with a running lock timer off the
\* ground and the timer has kept its value
C17_Witness ==
  /\ last.op \in {"move_piece", "rotate_piece", "soft_drop"}
  /\ last.ok
  /\ lock_timer > 0
  /\ ~is_on_ground(board, current_piece)
  /\ running

\* C18 as stated: in every running state lock_timer > 0 only if the active
\* piece is grounded.
C18_LockTimerOnlyGrounded ==
  running /\ lock_timer > 0 => is_on_ground(board, current_piece)

\* C18 amended: after construction, an update, a hold_piece or a hard_drop
\* of a running game lock_timer > 0 only if the active piece is grounded;
\* a move_piece, rotate_piece or soft_drop never raises lock_timer, it
\* keeps the value or resets it, so a piece taken off the ground keeps a
\* positive lock_timer until the next update; lock_timer stays below
\* LOCK_DELAY between commands
C18_LockTimerGrounded ==
  /\ []((/\ running
          /\ lock_timer > 0
          /\ last.op \in {"init", "update", "hold_piece", "hard_drop"})
         => is_on_ground(board, current_piece))
  /\ [](lock_timer \in 0..(LOCK_DELAY - 1))
  /\ [][last'.op \in {"move_piece", "rotate_piece", "soft_drop"}
          => lock_timer' \in {0, lock_timer}]_vars
  /\ [][lock_timer' > lock_timer
          => /\ last'.op = "update"
             /\ lock_timer' = lock_timer + last'.arg
             /\ is_on_ground(board', current_piece')]_vars

\* a move has taken a piece with lock_timer 0.3 s off the locked pieces it
\* stood on: lock_timer is positive and the piece is not grounded
C18_Witness ==
  /\ last.op = "move_piece"
  /\ last.ok
  /\ lock_timer = 6
  /\ locks >= 1
  /\ ~is_on_ground(board, current_piece)
  /\ running

----------------------------------------------------------------------------
(* Runs of 7 consecutive draws *)

\* the draws i .. i+6
Window(i) == [j \in 1..7 |-> draws[i + j - 1]]

\* the number of the bag that draw i comes from
BagOf(i) == (i - 1) \div 7

\* C19 as stated: every run of 7 consecutive draws, starting at any
\* position of the draw sequence, is a permutation of the 7 kinds.
C19_EveryWindow ==
  \A i \in 1..(Len(draws) - 6) : {Window(i)[j] : j \in 1..7} = Kinds

\* C19 amended: a run of 7 consecutive draws that starts at a bag boundary
\* (draw 1, 8, 15, ...) is a permutation of the 7 kinds; a run that starts
\* elsewhere spans two bags and may repeat a kind, but two equal draws less
\* than 7 apart always come from different bags, so no kind occurs more
\* than twice in a run
C19_WindowAtBoundary ==
  /\ \A i \in 1..(Len(draws) - 6) :
        /\ i % 7 = 1 => {Window(i)[j] : j \in 1..7} = Kinds
        /\ \A k \in Kinds :
             Cardinality({j \in 1..7 : Window(i)[j] = k}) <= 2
  /\ \A i \in 1..Len(draws) : \A j \in (i + 1)..Len(draws) :
        (draws[i] = draws[j] /\ j - i < 7) => BagOf(i) # BagOf(j)

\* a run of 7 draws across the boundary of two bags of different orders
\* holds a kind twice
C19_Witness ==
  \E i \in 1..(Len(draws) - 6) :
    /\ i % 7 # 1
    /\ Cardinality({Window(i)[j] : j \in 1..7}) < 7

----------------------------------------------------------------------------
(* Grounded test and validity check *)

\* the active piece at row y of its column, rotation unchanged
AtRow(y) == [current_piece EXCEPT !.y = y]

\* C20: for every valid placement of the active piece is_on_ground is true
\* exactly when the piece shifted down by one row is an invalid position,
\* hence a soft_drop of a validly placed piece is accepted exactly when the
\* piece is not grounded; the placements are the active piece of a running
\* game and, on the board of every soft_drop, the piece at every row of
\* its column
C20_GroundedIffBlocked ==
  /\ [](running =>
          (is_on_ground(board, current_piece)
             <=> ~_is_valid_position(board, AtRow(current_piece.y + 1))))
  /\ [][last'.op = "soft_drop" =>
          /\ \A y \in 0..(GRID_HEIGHT - 1) :
               _is_valid_position(board, AtRow(y)) =>
                 (is_on_ground(board, AtRow(y))
                    <=> ~_is_valid_position(board, AtRow(y + 1)))
          /\ _is_valid_position(board, current_piece) =>
               /\ last'.ok <=> ~is_on_ground(board, current_piece)
               /\ current_piece'.y =
                    IF is_on_ground(board, current_piece)
                    THEN current_piece.y ELSE current_piece.y + 1]_vars

\* a soft_drop of a piece standing on locked pieces has been refused
C20_Witness ==
  /\ last.op = "soft_drop"
  /\ ~last.ok
  /\ running
  /\ locks >= 1
  /\ current_piece.y < GRID_HEIGHT - 4
  /\ is_on_ground(board, current_piece)

----------------------------------------------------------------------------
(* The active piece of a running game *)

\* C21: while the engine is running, the active piece has 4 cells, all of
\* them inside the grid (0 <= x < 10, 0 <= y < 20) and none of them on an
\* occupied board cell, after any sequence of commands and updates
C21_ActivePieceValid ==
  running =>
    LET blocks == get_blocks(current_piece)
    IN  /\ Len(blocks) = 4
        /\ \A i \in 1..4 :
             /\ blocks[i][1] \in 0..(GRID_WIDTH - 1)
             /\ blocks[i][2] \in 0..(GRID_HEIGHT - 1)
             /\ board[blocks[i][2] + 1][blocks[i][1] + 1] = None

\* a piece spawned onto locked pieces has been moved sideways and stands
\* on them in a running game
C21_Witness ==
  /\ running
  /\ locks >= 3
  /\ last.op = "move_piece"
  /\ last.ok
  /\ cmds = 2
  /\ is_on_ground(board, current_piece)

----------------------------------------------------------------------------
(* Occupied cells *)

\* the number of occupied cells in the rows row_idx .. GRID_HEIGHT - 1
RECURSIVE OccupiedFrom(_, _)
OccupiedFrom(b, row_idx) ==
  IF row_idx >= GRID_HEIGHT THEN 0
  ELSE (IF b[row_idx + 1] = EmptyRow THEN 0
        ELSE Cardinality({col_idx \in 0..(GRID_WIDTH - 1) :
                            Cell(b, col_idx, row_idx) # None}))
       + OccupiedFrom(b, row_idx + 1)

Occupied(b) == OccupiedFrom(b, 0)

\* C22: as long as every command was issued while the engine was running,
\* the number of occupied board cells is 4 times the number of locks minus
\* 10 times lines_cleared: it is so after construction and after every
\* command that can lock, and a step without a lock leaves board and
\* lines_cleared as they are; a lock clears 0 to 4 rows (so it writes 4
\* cells that were empty), and lines_cleared never decreases
C22_CellCount ==
  /\ []((post = 0 /\ last.op \in {"init", "replay", "hard_drop", "update"})
          => Occupied(board) = 4 * locks - 10 * lines_cleared)
  /\ [][post' = 0 =>
          IF locks' = locks
          THEN board' = board /\ lines_cleared' = lines_cleared
          ELSE /\ locks' = locks + 1
               /\ lines_cleared' - lines_cleared \in 0..4]_vars
  /\ [][lines_cleared' >= lines_cleared]_vars

\* three rows have been cleared by one lock and cells are left on the
\* board, in a game that is still running
C22_Witness ==
  /\ lines_cleared = 3
  /\ post = 0
  /\ running
  /\ last.op = "hard_drop"
  /\ cmds = 2
  /\ Occupied(board) > 4

----------------------------------------------------------------------------
(* Full rows *)

\* C23: in every reachable state between commands no board row is
\* completely occupied: every lock removes all full rows before it returns
C23_NoFullRow ==
  \A r \in 1..GRID_HEIGHT : \E c \in 1..GRID_WIDTH : board[r][c] = None

\* a hard_drop has completed two rows, and what was above them now lies in
\* the bottom row
C23_Witness ==
  /\ lines_cleared = 2
  /\ last.op = "hard_drop"
  /\ board[GRID_HEIGHT] # EmptyRow

----------------------------------------------------------------------------
(* The loop of run() without player input: from the constructor state, or  *)
(* from a game set up by a command script, only update(dt) is called, as   *)
(* long as running is True.                                                *)

InitTick == Init \/ InitPlay

\* one pass of "while self.running" with no event and no key held
Tick ==
  \E dt \in DTs, shapes \in Shuffles :
    /\ script = <<>>
    /\ running
    /\ Store(update(Self, dt, 0, shapes))
    /\ last' = [op |-> "update", arg |-> dt, polled |-> 0,
                ok |-> locks' > locks]
    /\ UNCHANGED <<cmds, post, script>>

NextTick ==
  \/ Replay
  \/ Tick

\* ENABLED <<NextTick>>_vars: a command of the script is left, or the loop
\* condition holds; every such step changes the timers, the piece or the
\* script
TickEnabled == script # <<>> \/ running

\* WF_vars(NextTick) written out with TickEnabled for the ENABLED formula:
\* the loop of run() keeps calling update while running is True
TickFairness == []<>(~TickEnabled) \/ []<><<NextTick>>_vars

SpecTick == InitTick /\ [][NextTick]_vars /\ TickFairness

\* C24: when only update(dt) with dt > 0 is called, the active piece of a
\* running game is eventually locked (the number of locks, which grows by
\* one per lock, changes from even to odd or from odd to even), and the
\* game eventually is over
C24_TicksEndGame ==
  /\ \A parity \in {0, 1} :
        (running /\ script = <<>> /\ locks % 2 = parity)
          ~> (locks % 2 = 1 - parity)
  /\ <>(~running)

\* updates alone have cleared a row and gone on to end the game
C24_Witness ==
  /\ ~running
  /\ lines_cleared >= 1
  /\ last.op = "update"
  /\ last.ok
  /\ cmds = 0

====
